---- MODULE Spec2Model ----
(***************************************************************************)
(* State-machine model of samples/gdds_client.py: the GddsClient object    *)
(* (client_id, channel, stop event), the streaming consumer run by         *)
(* start_receiving on a worker thread, and the caller's thread, which is   *)
(* either main() (specification Spec) or an arbitrary caller of the four   *)
(* public methods (specification ApiSpec).                                 *)
(*                                                                         *)
(* The gRPC stub and the server are the environment: a unary call either   *)
(* answers or raises grpc.RpcError, and the response iterator yields a     *)
(* record, ends, or raises grpc.RpcError with some status code.            *)
(***************************************************************************)
EXTENDS Integers, Sequences, FiniteSets, TLC

\* ------------------------------------------------------------------ bounds
\* Records the server pushes on one stream.
MaxRecords == 2
\* Method calls an arbitrary caller issues on one client (ApiSpec).
MaxCalls == 4

\* --------------------------------------------------------------- constants
\* self.client_id = None
None == "None"
\* response.clientId: a server-assigned id, or the empty string (a string
\* field left at its default).
ClientIds == {"", "c1"}
\* `not self.client_id`
Falsy(id) == id = None \/ id = ""

\* grpc.StatusCode values an RpcError can carry (a representative subset:
\* the two the handler names and two it does not).
StatusCodes == {"CANCELLED", "UNAUTHENTICATED", "UNAVAILABLE", "INTERNAL"}
\* Status a receive in flight reports when the channel is closed locally:
\* the library cancels the active call, or reports the connection gone.
CloseCodes == {"CANCELLED", "UNAVAILABLE"}

\* RpcChannel: a call issued on a closed channel fails with ChannelClosed (an
\* error of the channel, not a grpc.RpcError of the call).
ChannelCallError(ch) == IF ch = "closed" THEN "ChannelClosed" ELSE "none"

\* datetime can represent years 1..9999 only; fromtimestamp raises ValueError
\* outside.  The model's integers are 32 bits wide, so the limits of the
\* representable range are scaled to model values: every tm up to
\* MaxTimestampMs converts, TmOutOfRange stands for an epoch-ms value past
\* year 9999 (an int64 field can hold one).
MinTimestampMs == -2000000000
MaxTimestampMs == 1999999999
TmOutOfRange == 2000000000
TmValues == {0, 1000, TmOutOfRange}
SvrTmValues == {1500, TmOutOfRange}
\* trnTyp codes on the wire: one the enumeration knows, one it does not.
TrnCodes == {3, 9}

\* trnTyp codes of a stream that exercises the whole enumeration: the five
\* codes VehicleType names, and codes below and above them.
VehicleCodes == {-1, 0, 1, 2, 3, 4, 5, 9}

\* A LocationRecord as far as the consumer reads it.
Records == [trnTyp : TrnCodes, tm : TmValues, svrtm : SvrTmValues]
\* Records of every code, with a timestamp that converts or one that does not.
CodedRecords == [trnTyp : VehicleCodes, tm : {1000, TmOutOfRange}, svrtm : {1500}]
NoRecord == [trnTyp |-> 0, tm |-> 0, svrtm |-> 0]

\* ---------------------------------------------------------- pure functions
\* Variant of to_string: the lookup has no default, so a code the table does
\* not hold yields None.
to_string_NoDefault(value) ==
  CASE value = 0 -> "UNKNOWN"
    [] value = 1 -> "CAR"
    [] value = 2 -> "TRUCK"
    [] value = 3 -> "BUS"
    [] value = 4 -> "MOTORCYCLE"
    [] OTHER -> "None"

\* VehicleType.to_string
to_string(value) ==
  CASE value = 0 -> "UNKNOWN"
    [] value = 1 -> "CAR"
    [] value = 2 -> "TRUCK"
    [] value = 3 -> "BUS"
    [] value = 4 -> "MOTORCYCLE"
    [] OTHER -> "UNKNOWN"

\* datetime.fromtimestamp(ms / 1000.0, tz=timezone.utc) succeeds
CanConvert(ms) == ms >= MinTimestampMs /\ ms <= MaxTimestampMs
\* datetime.fromtimestamp(ms / 1000.0, tz=timezone.utc): whole seconds since
\* the epoch (floor) and microseconds within the second.
fromtimestamp(ms) == [sec |-> ms \div 1000, usec |-> (ms % 1000) * 1000]

\* The line printed for one record (the sink).
PrintedLine(m) ==
  [mode |-> to_string(m.trnTyp),
   timestamp |-> fromtimestamp(m.tm),
   server_timestamp |-> fromtimestamp(m.svrtm)]

\* Variant of Classify: the CANCELLED branch is missing, so a peer's
\* cancellation is reported as a generic stream error.
Classify_NoCancelledBranch(c) ==
  IF c = "UNAUTHENTICATED" THEN [kind |-> "AuthRejected", cause |-> "none"]
  ELSE [kind |-> "StreamError", cause |-> c]

\* The except branch of start_receiving: what is reported for status code c.
NoOutcome == [kind |-> "none", cause |-> "none"]
Classify(c) ==
  IF c = "CANCELLED" THEN [kind |-> "PeerCancelled", cause |-> "none"]
  ELSE IF c = "UNAUTHENTICATED" THEN [kind |-> "AuthRejected", cause |-> "none"]
  ELSE [kind |-> "StreamError", cause |-> c]

\* ------------------------------------------------------------------- state
VARIABLES
  client_id,    \* self.client_id
  stop_event,   \* self._stop_event.is_set()
  channel,      \* self._channel: "open" | "closed"
  mpc,          \* position of the caller's thread
  mexc,         \* exception the caller's thread last saw raised ("none")
  termResult,   \* what the last terminate() reported
  wpc,          \* position of the worker running start_receiving
  wexc,         \* exception start_receiving raised ("none")
  cur,          \* gdds_message of the current loop iteration
  err,          \* status code of the RpcError caught ("none")
  session,      \* subscription status as the consumer's position shows it
  outcome,      \* classification the except branch reported
  sink,         \* lines printed for records, in order
  sent,         \* records the server pushed on the stream, in order
  stopAtRecv,   \* stop event's value when the current record arrived
  stopAtStart,  \* stop event's value when start_receiving began
  doneAtTerm,   \* whether the consumer had ended when terminate() was called
  nGenerate,    \* invocations of stub.GenerateClientId
  nSubscribe,   \* invocations of stub.Subscribe
  nTerminate,   \* invocations of stub.Terminate
  ncalls,       \* method calls the caller has issued
  mcall,        \* method the caller's thread invoked last ("none")
  errOrigin     \* where the RpcError caught arose: "server" | "closed"

vars == <<client_id, stop_event, channel, mpc, mexc, termResult, wpc, wexc,
          cur, err, session, outcome, sink, sent, stopAtRecv, stopAtStart,
          doneAtTerm, nGenerate, nSubscribe, nTerminate, ncalls, mcall,
          errOrigin>>

clientVars == <<client_id, stop_event, channel>>
callerVars == <<mpc, mexc, termResult, nGenerate, nTerminate, ncalls, mcall,
                doneAtTerm>>
workerVars == <<wpc, wexc, cur, err, session, outcome, sink, sent,
                stopAtRecv, stopAtStart, nSubscribe, errOrigin>>

\* GddsClient.__init__ with a non-empty server address; nothing started.
ClientInit ==
  /\ client_id = None
  /\ stop_event = FALSE
  /\ channel = "open"
  /\ mexc = "none"
  /\ termResult = "none"
  /\ wpc = "unstarted"
  /\ wexc = "none"
  /\ cur = NoRecord
  /\ err = "none"
  /\ session = "Idle"
  /\ outcome = NoOutcome
  /\ sink = << >>
  /\ sent = << >>
  /\ stopAtRecv = FALSE
  /\ stopAtStart = FALSE
  /\ doneAtTerm = FALSE
  /\ nGenerate = 0
  /\ nSubscribe = 0
  /\ nTerminate = 0
  /\ ncalls = 0
  /\ mcall = "none"
  /\ errOrigin = "none"

WorkerDone == wpc \in {"returned", "raised"}

\* ------------------------------------------- start_receiving (the worker)
\* Variant of StartCheckClientId: the client id is not checked.
StartCheckClientId_Skipped ==
  /\ wpc = "entry"
  /\ wpc' = "subscribe"
  /\ stopAtStart' = stop_event
  /\ UNCHANGED <<wexc, cur, err, session, outcome, sink, sent, stopAtRecv, nSubscribe, errOrigin>>
  /\ UNCHANGED clientVars
  /\ UNCHANGED callerVars

\* Variant of StartCheckClientId: start_receiving returns at once when the
\* stop event is already set.
StartCheckClientId_StopsIfSet ==
  /\ wpc = "entry"
  /\ IF Falsy(client_id)
       THEN wpc' = "raised" /\ wexc' = "InvalidState"
       ELSE /\ wpc' = IF stop_event THEN "returned" ELSE "subscribe"
            /\ wexc' = wexc
  /\ stopAtStart' = stop_event
  /\ UNCHANGED <<cur, err, session, outcome, sink, sent, stopAtRecv, nSubscribe, errOrigin>>
  /\ UNCHANGED clientVars
  /\ UNCHANGED callerVars

\* if not self.client_id: raise RuntimeError(...)
StartCheckClientId ==
  /\ wpc = "entry"
  /\ IF Falsy(client_id)
       THEN wpc' = "raised" /\ wexc' = "InvalidState"
       ELSE wpc' = "subscribe" /\ wexc' = wexc
  /\ stopAtStart' = stop_event
  /\ UNCHANGED <<cur, err, session, outcome, sink, sent, stopAtRecv, nSubscribe, errOrigin>>
  /\ UNCHANGED clientVars
  /\ UNCHANGED callerVars

\* response_iterator = self._stub.Subscribe(request): the call is started and
\* the iterator returned; invoking a closed channel raises (not an RpcError).
StartSubscribe ==
  /\ wpc = "subscribe"
  /\ nSubscribe' = nSubscribe + 1
  /\ IF ChannelCallError(channel) # "none"
       THEN wpc' = "raised" /\ wexc' = ChannelCallError(channel) /\ session' = session
       ELSE wpc' = "announce" /\ wexc' = wexc /\ session' = "Subscribing"
  /\ UNCHANGED <<cur, err, outcome, sink, sent, stopAtRecv, stopAtStart, errOrigin>>
  /\ UNCHANGED clientVars
  /\ UNCHANGED callerVars

\* print("Client ... subscribed to GDDS stream."): the stream is open.
StartAnnounce ==
  /\ wpc = "announce"
  /\ wpc' = "recv"
  /\ session' = "Streaming"
  /\ UNCHANGED <<wexc, cur, err, outcome, sink, sent, stopAtRecv, stopAtStart, nSubscribe, errOrigin>>
  /\ UNCHANGED clientVars
  /\ UNCHANGED callerVars

\* for gdds_message in response_iterator: the server pushes the next record,
\* one of `records`.
RecvRecordFrom(records) ==
  /\ wpc = "recv"
  /\ channel = "open"
  /\ Len(sent) < MaxRecords
  /\ \E m \in records :
       /\ sent' = Append(sent, m)
       /\ cur' = m
  /\ stopAtRecv' = stop_event
  /\ stopAtStart' = stopAtStart
  /\ wpc' = "check"
  /\ UNCHANGED <<wexc, err, session, outcome, sink, nSubscribe, errOrigin>>
  /\ UNCHANGED clientVars
  /\ UNCHANGED callerVars

RecvRecord == RecvRecordFrom(Records)
\* The same receive on a stream whose records carry every trnTyp code of
\* VehicleCodes.
RecvCodedRecord == RecvRecordFrom(CodedRecords)

\* for ... in response_iterator: the server closed the stream (StopIteration);
\* the loop ends and start_receiving returns.
RecvEnd ==
  /\ wpc = "recv"
  /\ channel = "open"
  /\ wpc' = "returned"
  /\ session' = "Completed"
  /\ UNCHANGED <<wexc, cur, err, outcome, sink, sent, stopAtRecv, stopAtStart, nSubscribe, errOrigin>>
  /\ UNCHANGED clientVars
  /\ UNCHANGED callerVars

\* for ... in response_iterator raises grpc.RpcError: on an open channel the
\* server (or the transport) reports a terminal error with some status code;
\* on a channel closed locally the receive in flight fails.
RecvError ==
  /\ wpc = "recv"
  /\ \E c \in (IF channel = "open" THEN StatusCodes ELSE CloseCodes) : err' = c
  /\ errOrigin' = IF channel = "open" THEN "server" ELSE "closed"
  /\ wpc' = "handler"
  /\ UNCHANGED <<wexc, cur, session, outcome, sink, sent, stopAtRecv, stopAtStart, nSubscribe>>
  /\ UNCHANGED clientVars
  /\ UNCHANGED callerVars

\* Variant of CheckStop: the stop event is not consulted between records.
CheckStop_NoBreak ==
  /\ wpc = "check"
  /\ wpc' = "deliver"
  /\ UNCHANGED <<wexc, cur, err, session, outcome, sink, sent, stopAtRecv, stopAtStart, nSubscribe, errOrigin>>
  /\ UNCHANGED clientVars
  /\ UNCHANGED callerVars

\* if self._stop_event.is_set(): break
CheckStop ==
  /\ wpc = "check"
  /\ IF stop_event
       THEN wpc' = "returned" /\ session' = "Cancelled"
       ELSE wpc' = "deliver" /\ session' = session
  /\ UNCHANGED <<wexc, cur, err, outcome, sink, sent, stopAtRecv, stopAtStart, nSubscribe, errOrigin>>
  /\ UNCHANGED clientVars
  /\ UNCHANGED callerVars

\* Variant of Deliver: the record is kept back and the next one is pulled
\* before it is printed.
Deliver_Deferred ==
  /\ wpc = "deliver"
  /\ IF CanConvert(cur.tm) /\ CanConvert(cur.svrtm)
       THEN /\ sink' = sink
            /\ wpc' = "recv"
            /\ wexc' = wexc
       ELSE /\ sink' = sink
            /\ wpc' = "raised"
            /\ wexc' = "ValueError"
  /\ UNCHANGED <<cur, err, session, outcome, sent, stopAtRecv, stopAtStart, nSubscribe, errOrigin>>
  /\ UNCHANGED clientVars
  /\ UNCHANGED callerVars

\* The loop body: both timestamps are converted, then the record is printed.
\* A timestamp datetime cannot represent raises ValueError, which no except
\* clause of start_receiving catches.
Deliver ==
  /\ wpc = "deliver"
  /\ IF CanConvert(cur.tm) /\ CanConvert(cur.svrtm)
       THEN /\ sink' = Append(sink, PrintedLine(cur))
            /\ wpc' = "recv"
            /\ wexc' = wexc
       ELSE /\ sink' = sink
            /\ wpc' = "raised"
            /\ wexc' = "ValueError"
  /\ UNCHANGED <<cur, err, session, outcome, sent, stopAtRecv, stopAtStart, nSubscribe, errOrigin>>
  /\ UNCHANGED clientVars
  /\ UNCHANGED callerVars

\* Variant of HandleRpcError: the error is reported and raised again.
HandleRpcError_Reraises ==
  /\ wpc = "handler"
  /\ outcome' = Classify(err)
  /\ session' = "Failed"
  /\ stop_event' = TRUE
  /\ wpc' = "raised"
  /\ wexc' = "RpcError"
  /\ UNCHANGED <<cur, err, sink, sent, stopAtRecv, stopAtStart, nSubscribe, errOrigin>>
  /\ UNCHANGED <<client_id, channel>>
  /\ UNCHANGED callerVars

\* Variant of HandleRpcError: after reporting the error the consumer goes back
\* to the stream instead of returning.
HandleRpcError_Resumes ==
  /\ wpc = "handler"
  /\ outcome' = Classify(err)
  /\ session' = "Failed"
  /\ stop_event' = TRUE
  /\ wpc' = "recv"
  /\ UNCHANGED <<wexc, cur, err, sink, sent, stopAtRecv, stopAtStart, nSubscribe, errOrigin>>
  /\ UNCHANGED <<client_id, channel>>
  /\ UNCHANGED callerVars

\* except grpc.RpcError as e: report by e.code(), then self._stop_event.set()
HandleRpcError ==
  /\ wpc = "handler"
  /\ outcome' = Classify(err)
  /\ session' = "Failed"
  /\ stop_event' = TRUE
  /\ wpc' = "returned"
  /\ UNCHANGED <<wexc, cur, err, sink, sent, stopAtRecv, stopAtStart, nSubscribe, errOrigin>>
  /\ UNCHANGED <<client_id, channel>>
  /\ UNCHANGED callerVars

start_receiving ==
  \/ StartCheckClientId
  \/ StartSubscribe
  \/ StartAnnounce
  \/ RecvRecord
  \/ RecvEnd
  \/ RecvError
  \/ CheckStop
  \/ Deliver
  \/ HandleRpcError

\* ------------------------------------------------ methods of GddsClient
\* Each method runs on the caller's thread from position `at`; it returns to
\* `ret`, and an exception it raises continues at `excRet`.

\* get_client_id up to the unary call: self._stub.GenerateClientId(...) is
\* invoked; on a closed channel the invocation itself raises.
get_client_id_call(at, excRet) ==
  /\ mpc = at
  /\ ncalls' = ncalls + 1
  /\ mcall' = "get_client_id"
  /\ doneAtTerm' = doneAtTerm
  /\ nGenerate' = nGenerate + 1
  /\ IF ChannelCallError(channel) # "none"
       THEN mpc' = excRet /\ mexc' = ChannelCallError(channel)
       ELSE mpc' = "get_client_id_wait" /\ mexc' = "none"
  /\ UNCHANGED <<termResult, nTerminate>>
  /\ UNCHANGED clientVars
  /\ UNCHANGED workerVars

\* Variant of get_client_id_return: the failed call still stores an id.
get_client_id_return_StoresOnError(ret, excRet) ==
  /\ mpc = "get_client_id_wait"
  /\ \/ \E id \in ClientIds :
          /\ client_id' = id
          /\ mpc' = ret
          /\ mexc' = "none"
     \/ /\ client_id' = "c1"
        /\ mpc' = excRet
        /\ mexc' = "IdentityError"
  /\ UNCHANGED <<stop_event, channel>>
  /\ UNCHANGED <<termResult, nGenerate, nTerminate, ncalls, mcall, doneAtTerm>>
  /\ UNCHANGED workerVars

\* get_client_id after the call: the response's clientId is stored and
\* returned, or grpc.RpcError is re-raised as RuntimeError.
get_client_id_return(ret, excRet) ==
  /\ mpc = "get_client_id_wait"
  /\ \/ \E id \in ClientIds :
          /\ client_id' = id
          /\ mpc' = ret
          /\ mexc' = "none"
     \/ /\ client_id' = client_id
        /\ mpc' = excRet
        /\ mexc' = "IdentityError"
  /\ UNCHANGED <<stop_event, channel>>
  /\ UNCHANGED <<termResult, nGenerate, nTerminate, ncalls, mcall, doneAtTerm>>
  /\ UNCHANGED workerVars

\* Variant of terminate_call: the request is sent whether or not a client id
\* is set.
terminate_call_NoKeyCheck(at, ret, excRet) ==
  /\ mpc = at
  /\ ncalls' = ncalls + 1
  /\ mcall' = "terminate"
  /\ doneAtTerm' = WorkerDone
  /\ termResult' = "none"
  /\ nTerminate' = nTerminate + 1
  /\ IF ChannelCallError(channel) # "none"
       THEN mpc' = excRet /\ mexc' = ChannelCallError(channel)
       ELSE mpc' = "terminate_wait" /\ mexc' = "none"
  /\ UNCHANGED nGenerate
  /\ UNCHANGED clientVars
  /\ UNCHANGED workerVars

\* terminate up to the unary call: without a client id it reports "nothing to
\* terminate" and returns; otherwise self._stub.Terminate(request) is invoked.
terminate_call(at, ret, excRet) ==
  /\ mpc = at
  /\ ncalls' = ncalls + 1
  /\ mcall' = "terminate"
  /\ doneAtTerm' = WorkerDone
  /\ IF Falsy(client_id)
       THEN /\ termResult' = "nothing"
            /\ mpc' = ret
            /\ mexc' = "none"
            /\ nTerminate' = nTerminate
       ELSE /\ termResult' = "none"
            /\ nTerminate' = nTerminate + 1
            /\ IF ChannelCallError(channel) # "none"
                 THEN mpc' = excRet /\ mexc' = ChannelCallError(channel)
                 ELSE mpc' = "terminate_wait" /\ mexc' = "none"
  /\ UNCHANGED nGenerate
  /\ UNCHANGED clientVars
  /\ UNCHANGED workerVars

\* Variant of terminate_return: the stop event is set only when the server
\* answers success.
terminate_return_SuccessOnly(ret) ==
  /\ mpc = "terminate_wait"
  /\ \E r \in {"success", "failed", "error"} :
       /\ termResult' = r
       /\ stop_event' = (stop_event \/ r = "success")
  /\ mpc' = ret
  /\ UNCHANGED <<client_id, channel>>
  /\ UNCHANGED <<mexc, nGenerate, nTerminate, ncalls, mcall, doneAtTerm>>
  /\ UNCHANGED workerVars

\* Variant of terminate_return: terminate returns only once the consumer has
\* finished.
terminate_return_Joining(ret) ==
  /\ mpc = "terminate_wait"
  /\ WorkerDone
  /\ \E r \in {"success", "failed", "error"} : termResult' = r
  /\ stop_event' = TRUE
  /\ mpc' = ret
  /\ UNCHANGED <<client_id, channel>>
  /\ UNCHANGED <<mexc, nGenerate, nTerminate, ncalls, mcall, doneAtTerm>>
  /\ UNCHANGED workerVars

\* Variant of terminate_return: a termination that fails marks the session
\* Failed.
terminate_return_Escalates(ret) ==
  /\ mpc = "terminate_wait"
  /\ \E r \in {"success", "failed", "error"} :
       /\ termResult' = r
       /\ session' = IF r = "success" THEN session ELSE "Failed"
  /\ stop_event' = TRUE
  /\ mpc' = ret
  /\ UNCHANGED <<client_id, channel>>
  /\ UNCHANGED <<mexc, nGenerate, nTerminate, ncalls, mcall, doneAtTerm>>
  /\ UNCHANGED <<wpc, wexc, cur, err, outcome, sink, sent, stopAtRecv,
                 stopAtStart, nSubscribe, errOrigin>>

\* terminate after the call: response.success is true or false, or the call
\* raised grpc.RpcError; on each path the stop event is set.
terminate_return(ret) ==
  /\ mpc = "terminate_wait"
  /\ \E r \in {"success", "failed", "error"} : termResult' = r
  /\ stop_event' = TRUE
  /\ mpc' = ret
  /\ UNCHANGED <<client_id, channel>>
  /\ UNCHANGED <<mexc, nGenerate, nTerminate, ncalls, mcall, doneAtTerm>>
  /\ UNCHANGED workerVars

\* close, first statement: self._stop_event.set()
close_set_stop(at) ==
  /\ mpc = at
  /\ ncalls' = ncalls + 1
  /\ mcall' = "close"
  /\ doneAtTerm' = doneAtTerm
  /\ stop_event' = TRUE
  /\ mpc' = "close_channel"
  /\ UNCHANGED <<client_id, channel>>
  /\ UNCHANGED <<mexc, termResult, nGenerate, nTerminate>>
  /\ UNCHANGED workerVars

\* Variant of close_channel: closing a channel that is already closed raises.
close_channel_RaisesIfClosed(ret) ==
  /\ mpc = "close_channel"
  /\ channel' = "closed"
  /\ mexc' = IF channel = "closed" THEN "ChannelClosed" ELSE mexc
  /\ mpc' = ret
  /\ UNCHANGED <<client_id, stop_event>>
  /\ UNCHANGED <<termResult, nGenerate, nTerminate, ncalls, mcall, doneAtTerm>>
  /\ UNCHANGED workerVars

\* close, second statement: self._channel.close()
close_channel(ret) ==
  /\ mpc = "close_channel"
  /\ channel' = "closed"
  /\ mpc' = ret
  /\ UNCHANGED <<client_id, stop_event>>
  /\ UNCHANGED <<mexc, termResult, nGenerate, nTerminate, ncalls, mcall, doneAtTerm>>
  /\ UNCHANGED workerVars

\* ------------------------------------------------------------------ main()
\* client.get_client_id(); an exception leaves the `with GddsClient` block.
MainGetClientId == get_client_id_call("get_client_id", "exit_client")
MainGetClientIdReturn == get_client_id_return("submit", "exit_client")

\* future = executor.submit(client.start_receiving)
MainSubmit ==
  /\ mpc = "submit"
  /\ wpc = "unstarted"
  /\ wpc' = "entry"
  /\ mpc' = "input"
  /\ UNCHANGED <<wexc, cur, err, session, outcome, sink, sent, stopAtRecv, stopAtStart, nSubscribe, errOrigin>>
  /\ UNCHANGED clientVars
  /\ UNCHANGED <<mexc, termResult, nGenerate, nTerminate, ncalls, mcall, doneAtTerm>>

\* input(): the user presses Enter.
MainInput ==
  /\ mpc = "input"
  /\ mpc' = "terminate"
  /\ UNCHANGED <<mexc, termResult, nGenerate, nTerminate, ncalls, mcall, doneAtTerm>>
  /\ UNCHANGED clientVars
  /\ UNCHANGED workerVars

\* input() raises (EOFError on a closed stdin, KeyboardInterrupt): the
\* exception leaves the executor's block without calling terminate.
MainInputRaises ==
  /\ mpc = "input"
  /\ mpc' = "exit_executor"
  /\ mexc' = "InputError"
  /\ UNCHANGED <<termResult, nGenerate, nTerminate, ncalls, mcall, doneAtTerm>>
  /\ UNCHANGED clientVars
  /\ UNCHANGED workerVars

\* client.terminate()
MainTerminate == terminate_call("terminate", "join", "exit_executor")
MainTerminateReturn == terminate_return("join")

\* future.result(): waits for the worker and re-raises what it raised.
MainJoin ==
  /\ mpc = "join"
  /\ WorkerDone
  /\ mexc' = IF wpc = "raised" THEN wexc ELSE mexc
  /\ mpc' = "exit_executor"
  /\ UNCHANGED <<termResult, nGenerate, nTerminate, ncalls, mcall, doneAtTerm>>
  /\ UNCHANGED clientVars
  /\ UNCHANGED workerVars

\* Variant of MainExitExecutor: the executor is left without waiting for the
\* worker.
MainExitExecutor_NoWait ==
  /\ mpc = "exit_executor"
  /\ mpc' = "exit_client"
  /\ UNCHANGED <<mexc, termResult, nGenerate, nTerminate, ncalls, mcall, doneAtTerm>>
  /\ UNCHANGED clientVars
  /\ UNCHANGED workerVars

\* ThreadPoolExecutor.__exit__: shutdown(wait=True) waits for the worker.
MainExitExecutor ==
  /\ mpc = "exit_executor"
  /\ WorkerDone
  /\ mpc' = "exit_client"
  /\ UNCHANGED <<mexc, termResult, nGenerate, nTerminate, ncalls, mcall, doneAtTerm>>
  /\ UNCHANGED clientVars
  /\ UNCHANGED workerVars

\* GddsClient.__exit__: self.close()
MainClose == close_set_stop("exit_client")
MainCloseChannel == close_channel("done")

main ==
  \/ MainGetClientId
  \/ MainGetClientIdReturn
  \/ MainSubmit
  \/ MainInput
  \/ MainInputRaises
  \/ MainTerminate
  \/ MainTerminateReturn
  \/ MainJoin
  \/ MainExitExecutor
  \/ MainClose
  \/ MainCloseChannel

Init == ClientInit /\ mpc = "get_client_id"
Next == main \/ start_receiving
Spec == Init /\ [][Next]_vars

\* ------------------------------------- an arbitrary caller of the methods
\* The caller issues up to MaxCalls method calls in any order, one at a time,
\* and may hand start_receiving to a worker thread once.
ApiGetClientId == ncalls < MaxCalls /\ get_client_id_call("ready", "ready")
ApiGetClientIdReturn == get_client_id_return("ready", "ready")
ApiTerminate == ncalls < MaxCalls /\ terminate_call("ready", "ready", "ready")
ApiTerminateReturn == terminate_return("ready")
ApiClose == ncalls < MaxCalls /\ close_set_stop("ready")
ApiCloseChannel == close_channel("ready")

\* start_receiving handed to a worker thread.
ApiStartReceiving ==
  /\ mpc = "ready"
  /\ wpc = "unstarted"
  /\ wpc' = "entry"
  /\ UNCHANGED <<wexc, cur, err, session, outcome, sink, sent, stopAtRecv, stopAtStart, nSubscribe, errOrigin>>
  /\ UNCHANGED clientVars
  /\ UNCHANGED callerVars

ApiInit == ClientInit /\ mpc = "ready"
ApiNext ==
  \/ ApiGetClientId
  \/ ApiGetClientIdReturn
  \/ ApiTerminate
  \/ ApiTerminateReturn
  \/ ApiClose
  \/ ApiCloseChannel
  \/ ApiStartReceiving
  \/ start_receiving
ApiSpec == ApiInit /\ [][ApiNext]_vars

\* main() under fair scheduling: each thread keeps running while it can take
\* a step of its own, a unary call is eventually answered and the user
\* eventually answers the prompt.  Nothing obliges the server to push a
\* record, end the stream or fail it: Subscribe is called without a deadline.
WorkerStep ==
  \/ StartCheckClientId
  \/ StartSubscribe
  \/ StartAnnounce
  \/ CheckStop
  \/ Deliver
  \/ HandleRpcError
FairSpec == Spec /\ WF_vars(main) /\ WF_vars(WorkerStep)

\* main() against a stream whose records carry every code of VehicleCodes.
start_receiving_coded ==
  \/ StartCheckClientId
  \/ StartSubscribe
  \/ StartAnnounce
  \/ RecvCodedRecord
  \/ RecvEnd
  \/ RecvError
  \/ CheckStop
  \/ Deliver
  \/ HandleRpcError
CodedNext == main \/ start_receiving_coded
CodedSpec == Init /\ [][CodedNext]_vars

\* ------------------------------------------------------------ properties
WorkerRunning == wpc \notin {"unstarted", "returned", "raised"}
PrintedAll(records) == [i \in 1..Len(records) |-> PrintedLine(records[i])]

\* C1: when the stop event is already set at the moment a record arrives
\* (it was set after the previous record was handled and before this one was
\* received), the consumer's next step is the break: that record is not
\* printed, the session is Cancelled (not Failed), and from then on nothing
\* more is printed and nothing more is pulled from the stream.
C1_StopBetweenRecords ==
  /\ [][(wpc = "check" /\ stopAtRecv /\ wpc' # wpc)
          => (wpc' = "returned" /\ session' = "Cancelled"
              /\ sink' = sink /\ sent' = sent)]_vars
  /\ [][session = "Cancelled"
          => (session' = "Cancelled" /\ wpc' = "returned"
              /\ sink' = sink /\ sent' = sent)]_vars

\* C1 witness: record 1 was printed, the stop event was set before record 2
\* arrived, and the session ended Cancelled with record 2 unprinted.
C1_Witness ==
  /\ session = "Cancelled"
  /\ stopAtRecv
  /\ Len(sent) = 2
  /\ sink = PrintedAll(SubSeq(sent, 1, 1))

\* C2: once the except branch has run, what it reported is fixed by the
\* status code of the error alone: UNAUTHENTICATED gives AuthRejected,
\* CANCELLED gives PeerCancelled, any other code gives StreamError carrying
\* that code; before it ran nothing is reported.
C2_ErrorClassification ==
  /\ (session = "Failed") = (outcome # NoOutcome)
  /\ session = "Failed" =>
       /\ err \in StatusCodes
       /\ err = "UNAUTHENTICATED" => outcome.kind = "AuthRejected"
       /\ err = "CANCELLED" => outcome.kind = "PeerCancelled"
       /\ err \notin {"UNAUTHENTICATED", "CANCELLED"} =>
            (outcome.kind = "StreamError" /\ outcome.cause = err)

\* C2 witness: the server cancelled the stream and PeerCancelled was reported.
C2_Witness ==
  /\ session = "Failed"
  /\ errOrigin = "server"
  /\ err = "CANCELLED"
  /\ outcome.kind = "PeerCancelled"

\* C3 (as claimed): whenever start_receiving has finished a subscription with
\* the stop event never set, the stream ended normally, every record the
\* server sent was printed once, in order, and the session is Completed.
C3_AllRecordsThenCompleted ==
  (WorkerDone /\ ~stop_event /\ session # "Idle")
    => (session = "Completed" /\ sink = PrintedAll(sent))

\* C4: every terminate() that has a client id invokes the Terminate call
\* exactly once (no other step ever invokes it), and when the attempt is over,
\* whether the server answered success or failure or the call raised, the stop
\* event is set.
C4_TerminateSignalsStop ==
  /\ [][nTerminate' # nTerminate
          => (/\ nTerminate' = nTerminate + 1
              /\ mcall' = "terminate" /\ ncalls' = ncalls + 1
              /\ ~Falsy(client_id)
              /\ (mpc' # "terminate_wait" => stop_event'))]_vars
  /\ [][(mcall' = "terminate" /\ ncalls' = ncalls + 1 /\ ~Falsy(client_id))
          => nTerminate' = nTerminate + 1]_vars
  /\ [][(mpc = "terminate_wait" /\ mpc' # mpc)
          => (/\ stop_event'
              /\ termResult' \in {"success", "failed", "error"}
              /\ nTerminate' = nTerminate)]_vars

\* C4 witness: the only calls were get_client_id and terminate, the
\* termination call raised a transport error, and the stop event is set.
C4_Witness ==
  /\ mcall = "terminate"
  /\ mpc # "terminate_wait"
  /\ termResult = "error"
  /\ ncalls = 2
  /\ nTerminate = 1
  /\ wpc = "unstarted"
  /\ stop_event

\* C5: a terminate() issued while no client id is set invokes no stub call,
\* reports "nothing to terminate", raises nothing, returns at once and leaves
\* the stop event, client_id and the channel as they were.
C5_TerminateWithoutKey ==
  [][(mcall' = "terminate" /\ ncalls' = ncalls + 1 /\ Falsy(client_id))
       => (/\ termResult' = "nothing"
           /\ mexc' = "none"
           /\ mpc' # "terminate_wait"
           /\ UNCHANGED <<nGenerate, nSubscribe, nTerminate>>
           /\ UNCHANGED <<stop_event, client_id, channel>>)]_vars

\* C5 witness: terminate() was the first call on a fresh client.
C5_Witness ==
  /\ mcall = "terminate"
  /\ termResult = "nothing"
  /\ client_id = None
  /\ ncalls = 1
  /\ nTerminate = 0
  /\ ~stop_event
  /\ channel = "open"

\* C6: start_receiving entered with no client id raises InvalidState as its
\* first step, and a run that raised it has invoked no Subscribe, printed no
\* record, pulled nothing from a stream and left the session Idle.
C6_StartWithoutKey ==
  /\ [][(wpc = "entry" /\ Falsy(client_id) /\ wpc' # wpc)
          => (wpc' = "raised" /\ wexc' = "InvalidState"
              /\ nSubscribe' = 0 /\ session' = "Idle")]_vars
  /\ [](wexc = "InvalidState"
          => (/\ wpc = "raised"
              /\ nSubscribe = 0
              /\ sink = << >>
              /\ sent = << >>
              /\ session = "Idle"))

\* C6 witness: start_receiving raised InvalidState on a client whose id was
\* never set.
C6_Witness ==
  /\ wexc = "InvalidState"
  /\ client_id = None
  /\ nSubscribe = 0

\* C7 (as claimed): in main(), once client-id generation has failed, or the
\* stream has failed, or terminate() has reported a failure or an error, the
\* consumer eventually is not running and the channel eventually is closed.
C7_FailurePathsStopAndClose ==
  /\ (mexc = "IdentityError") ~> (~WorkerRunning /\ channel = "closed")
  /\ (session = "Failed") ~> (~WorkerRunning /\ channel = "closed")
  /\ (termResult \in {"failed", "error"}) ~> (~WorkerRunning /\ channel = "closed")

\* C8: in main(), terminate() never depends on the consumer: wherever the
\* consumer is, terminate() can take its next step (issue its call, or return
\* once the call has been answered or has failed); its steps change nothing of
\* the consumer beyond setting the stop event; it goes from the answered call
\* straight to its return; and only the later future.result() waits for the
\* consumer.
C8_TerminateDoesNotWait ==
  /\ [](mpc = "terminate" => ENABLED MainTerminate)
  /\ [](mpc = "terminate_wait" => ENABLED MainTerminateReturn)
  /\ [][(mpc \in {"terminate", "terminate_wait"} /\ mpc' # mpc)
          => (/\ UNCHANGED workerVars
              /\ mpc' \in {"terminate_wait", "join"}
              /\ mpc' = "join" /\ ~Falsy(client_id) => stop_event')]_vars
  /\ [][(mpc = "join" /\ mpc' # mpc) => WorkerDone]_vars

\* C8 witness: terminate() has returned while the consumer is still blocked
\* on receiving the next record.
C8_Witness ==
  /\ mpc = "join"
  /\ termResult \in {"success", "failed", "error"}
  /\ stop_event
  /\ wpc = "recv"

\* C9: once close() has closed the channel, the channel stays closed and the
\* stop event stays set; a further close() changes nothing of the client or of
\* the consumer and raises nothing; and every stub call invoked on the closed
\* channel fails with ChannelClosed.
C9_CloseIdempotent ==
  /\ [](channel = "closed" => stop_event)
  /\ [][channel = "closed" => channel' = "closed"]_vars
  /\ [][(channel = "closed" /\ mcall' = "close" /\ mpc' # mpc)
          => (/\ UNCHANGED <<client_id, stop_event, channel>>
              /\ UNCHANGED workerVars
              /\ mexc' = mexc)]_vars
  /\ [][(channel = "closed" /\ (nGenerate' # nGenerate \/ nTerminate' # nTerminate))
          => mexc' = "ChannelClosed"]_vars
  /\ [][(channel = "closed" /\ nSubscribe' # nSubscribe)
          => wexc' = "ChannelClosed"]_vars

\* C9 witness: close() was called twice on a fresh client and both calls
\* returned without raising.
C9_Witness ==
  /\ mcall = "close"
  /\ mpc = "ready"
  /\ ncalls = 2
  /\ nGenerate = 0
  /\ termResult = "none"
  /\ mexc = "none"
  /\ channel = "closed"
  /\ stop_event

\* C10 (as claimed): when the channel is closed while the consumer has a
\* receive in flight and the consumer has handled the failure of that receive,
\* the session is Failed and the outcome reported is StreamError.
C10_CloseDuringReceive ==
  (errOrigin = "closed" /\ wpc = "returned")
    => (session = "Failed" /\ outcome.kind = "StreamError")

\* C11: every printed line names the transit mode of its record exactly:
\* UNKNOWN, CAR, TRUCK, BUS, MOTORCYCLE for the codes 0..4 and UNKNOWN for
\* every other code; and handling a record whose code is outside 0..4 (its
\* timestamps being convertible) raises nothing and leaves the session
\* running: the line is printed and the consumer goes on to the next receive.
C11_VehicleTypeNames ==
  /\ [](\A i \in 1..Len(sink) :
          LET code == sent[i].trnTyp
              name == sink[i].mode
          IN /\ code = 0 => name = "UNKNOWN"
             /\ code = 1 => name = "CAR"
             /\ code = 2 => name = "TRUCK"
             /\ code = 3 => name = "BUS"
             /\ code = 4 => name = "MOTORCYCLE"
             /\ code \notin 0..4 => name = "UNKNOWN")
  /\ [][(wpc = "deliver" /\ wpc' # wpc /\ cur.trnTyp \notin 0..4
           /\ CanConvert(cur.tm) /\ CanConvert(cur.svrtm))
          => (/\ Len(sink') = Len(sink) + 1
              /\ wpc' = "recv"
              /\ wexc' = "none"
              /\ session' = "Streaming")]_vars

\* C11 witness: a record with a code above the enumeration and one with a
\* code below it were both printed, and the consumer is receiving again.
C11_Witness ==
  /\ Len(sink) = 2
  /\ sent[1].trnTyp = 9
  /\ sent[2].trnTyp = -1
  /\ sink[2].mode = "UNKNOWN"
  /\ wpc = "recv"
  /\ session = "Streaming"

\* C12: every GenerateClientId request belongs to one call of get_client_id,
\* which sends exactly one; the answer to it, success or failure, sends no
\* further request; a failed call raises IdentityError and leaves client_id as
\* it was; and as long as no call has succeeded (client_id is still None after
\* at least one request), no Subscribe and no Terminate request has been sent,
\* a start_receiving that ended ended with InvalidState, and a terminate that
\* returned had nothing to terminate.
C12_GetClientIdSingleCall ==
  /\ [][nGenerate' # nGenerate
          => (/\ nGenerate' = nGenerate + 1
              /\ ncalls' = ncalls + 1
              /\ mcall' = "get_client_id")]_vars
  /\ [][(mpc = "get_client_id_wait" /\ mpc' # mpc)
          => (/\ nGenerate' = nGenerate
              /\ mexc' \in {"none", "IdentityError"}
              /\ mexc' = "IdentityError" => client_id' = client_id
              /\ mexc' = "none" => client_id' \in ClientIds)]_vars
  /\ []((nGenerate >= 1 /\ mpc # "get_client_id_wait" /\ client_id = None)
          => (/\ nSubscribe = 0
              /\ nTerminate = 0
              /\ sink = << >>
              /\ WorkerDone => wexc = "InvalidState"
              /\ termResult \in {"none", "nothing"}))

\* C12 witness: the one get_client_id call so far failed on an open channel,
\* and the start_receiving and the terminate that followed found no client id.
C12_Witness ==
  /\ nGenerate = 1
  /\ ncalls = 2
  /\ channel = "open"
  /\ mpc = "ready"
  /\ client_id = None
  /\ wpc = "raised"
  /\ wexc = "InvalidState"
  /\ termResult = "nothing"
  /\ nTerminate = 0
  /\ nSubscribe = 0

\* C13: the session changes state only along Idle -> Subscribing -> Streaming
\* -> Completed | Cancelled | Failed; once it is Completed, Cancelled or Failed
\* it keeps that state and its outcome, and nothing more is printed; and a
\* line is printed only by a step that starts and ends in Streaming.
C13_SessionTransitions ==
  /\ [][session' # session
          => <<session, session'>> \in {<<"Idle", "Subscribing">>,
                                        <<"Subscribing", "Streaming">>,
                                        <<"Streaming", "Completed">>,
                                        <<"Streaming", "Cancelled">>,
                                        <<"Streaming", "Failed">>}]_vars
  /\ [][(session \in {"Completed", "Cancelled", "Failed"})
          => (session' = session /\ outcome' = outcome /\ sink' = sink)]_vars
  /\ [][sink' # sink
          => (session = "Streaming" /\ session' = "Streaming")]_vars

\* C13 witness: a session that printed a record and then failed, the consumer
\* having returned.
C13_Witness ==
  /\ session = "Failed"
  /\ Len(sink) >= 1
  /\ wpc = "returned"
  /\ outcome.kind = "StreamError"

\* C14: in main(), a Subscribe request is sent only after a GenerateClientId
\* request gave a non-empty client id; main waits in future.result() only
\* after terminate() was called and has returned; and from the moment the
\* executor's block is left, and so whenever close() runs or the channel is
\* closed, the consumer is not running:
\* it was never started, it returned with the session Completed, Cancelled or
\* Failed, or it ended with an exception.
C14_MainFlowOrder ==
  /\ nSubscribe >= 1 => (nGenerate >= 1 /\ ~Falsy(client_id))
  /\ mpc = "join" => (mcall = "terminate" /\ termResult # "none")
  /\ (mpc \in {"exit_client", "close_channel", "done"} \/ channel = "closed")
       => (/\ ~WorkerRunning
           /\ (wpc = "returned"
                 => session \in {"Completed", "Cancelled", "Failed"}))
  /\ channel = "closed" => mpc = "done"

\* C14 witness: main() ran to its end: the client id was obtained, the stream
\* subscribed, termination requested and granted, the consumer stopped on the
\* stop event and was joined, and the channel closed.
C14_Witness ==
  /\ mpc = "done"
  /\ channel = "closed"
  /\ nGenerate = 1
  /\ nSubscribe = 1
  /\ termResult = "success"
  /\ session = "Cancelled"
  /\ wpc = "returned"
  /\ mexc = "none"

\* C15: at every moment at most one received record has not been printed,
\* and it is the last one received; while the consumer waits on the stream
\* every record received so far has been printed; while it holds a record
\* (checking the stop event or printing) that record is the only one not
\* printed; the printed lines are those of the records received, in the
\* order received; and a step prints at most one line, and only the
\* consumer's step on the record it holds.
C15_OneRecordInFlight ==
  /\ [](/\ Len(sent) - Len(sink) \in {0, 1}
        /\ sink = PrintedAll(SubSeq(sent, 1, Len(sink)))
        /\ wpc = "recv" => Len(sent) = Len(sink)
        /\ wpc \in {"check", "deliver"}
             => (Len(sent) = Len(sink) + 1 /\ cur = sent[Len(sent)]))
  /\ [][sink' # sink
          => (/\ wpc = "deliver"
              /\ wpc' = "recv"
              /\ sent' = sent
              /\ sink' = Append(sink, PrintedLine(cur)))]_vars

\* C15 witness: the second record is held by the consumer, about to be
\* printed, the first one having been printed.
C15_Witness ==
  /\ wpc = "deliver"
  /\ Len(sent) = 2
  /\ Len(sink) = 1
  /\ cur = sent[2]

\* C16: in main(), when terminate() was called with the consumer already
\* returned (its session Completed, Cancelled or Failed) and the Terminate
\* call answers success=false or raises, that answer leaves the session, its
\* outcome, the printed lines and the consumer untouched, raises nothing and
\* takes main to future.result(); the session keeps its state and outcome
\* from then on; and main goes on to its end with the channel closed and no
\* exception raised.
C16_TerminateFailureAfterStop ==
  /\ [][(/\ mpc = "terminate_wait" /\ mpc' # mpc
         /\ doneAtTerm /\ wpc = "returned"
         /\ termResult' \in {"failed", "error"})
          => (/\ session' = session
              /\ outcome' = outcome
              /\ sink' = sink
              /\ wpc' = wpc
              /\ mexc' = mexc
              /\ mpc' = "join")]_vars
  /\ [][(doneAtTerm /\ wpc = "returned")
          => (session' = session /\ outcome' = outcome)]_vars
  /\ \A t \in {"Completed", "Cancelled", "Failed"} :
       (/\ mpc = "join" /\ doneAtTerm /\ wpc = "returned"
        /\ termResult \in {"failed", "error"} /\ session = t)
         ~> (mpc = "done" /\ channel = "closed" /\ session = t /\ mexc = "none")

\* C16 witness: the stream had ended and the consumer returned before
\* terminate() was called; Terminate answered success=false; main has joined
\* the consumer and closed the channel, the session still Completed.
C16_Witness ==
  /\ mpc = "done"
  /\ channel = "closed"
  /\ doneAtTerm
  /\ termResult = "failed"
  /\ session = "Completed"
  /\ outcome = NoOutcome
  /\ mexc = "none"

\* C17: no step of any method clears the stop event once it is set; a
\* start_receiving that has a client id goes on to invoke stub.Subscribe
\* whatever the stop event's value, and on an open channel the subscription
\* is started; and a start_receiving that began with the stop event set
\* prints no record at all.
C17_StopFlagMonotonic ==
  /\ [][stop_event => stop_event']_vars
  /\ [][(wpc = "entry" /\ wpc' # wpc /\ ~Falsy(client_id))
          => wpc' = "subscribe"]_vars
  /\ [][(wpc = "subscribe" /\ wpc' # wpc)
          => (/\ nSubscribe' = nSubscribe + 1
              /\ channel = "open" => (wpc' = "announce" /\ session' = "Subscribing"))]_vars
  /\ [](stopAtStart => sink = << >>)

\* C17 witness: start_receiving began with the stop event set, subscribed on
\* the open channel, received a record and left the loop without printing it.
C17_Witness ==
  /\ stopAtStart
  /\ channel = "open"
  /\ nSubscribe = 1
  /\ Len(sent) = 1
  /\ sink = << >>
  /\ session = "Cancelled"
  /\ wpc = "returned"

\* C18: in main(), the except clause of start_receiving ends, for every status
\* code, with the method returning, no exception raised and the stop event
\* set; a consumer that caught an RpcError and has ended has therefore
\* returned with the stop event set, and future.result() on it raises nothing
\* in main; and when the stream ends normally start_receiving returns with
\* the stop event as it was, unset if it was unset.
C18_StreamErrorNotPropagated ==
  /\ [][(wpc = "handler" /\ wpc' # wpc)
          => (/\ err \in StatusCodes
              /\ wpc' = "returned"
              /\ wexc' = "none"
              /\ stop_event')]_vars
  /\ []((err # "none" /\ WorkerDone)
          => (wpc = "returned" /\ wexc = "none" /\ stop_event))
  /\ [][(mpc = "join" /\ mpc' # mpc /\ err # "none")
          => (mexc' = "none" /\ mpc' = "exit_executor")]_vars
  /\ [][(wpc = "recv" /\ session' = "Completed")
          => (/\ wpc' = "returned"
              /\ wexc' = "none"
              /\ stop_event' = stop_event)]_vars

\* C18 witness: the stream failed with a status code of the general branch,
\* start_receiving returned with the stop event set, and main has passed
\* future.result() without an exception.
C18_Witness ==
  /\ mpc = "exit_executor"
  /\ mcall = "terminate"
  /\ err = "UNAVAILABLE"
  /\ session = "Failed"
  /\ outcome.kind = "StreamError"
  /\ wpc = "returned"
  /\ wexc = "none"
  /\ stop_event
  /\ mexc = "none"
====
